---- MODULE Spec2Model ----
(***************************************************************************)
(* Model of the digxe auto start/claim programs: src/main.py (multi-account *)
(* sweep loop, wallet auto-claim) and src/bot.py (single-account loop),     *)
(* with the HTTP retry client both share.                                   *)
(*                                                                          *)
(* Time is in milliseconds, counted from a reference instant that is a      *)
(* whole number of seconds (TLC's integers are 32 bits wide, so epoch       *)
(* milliseconds are shown relative to it).  Every sleep of the code         *)
(* advances `clock` by its duration; requests themselves take no time.  The *)
(* local clock and the server clock are the same clock; the server's Date   *)
(* header shows it truncated to whole seconds.                              *)
(***************************************************************************)
EXTENDS Integers, Sequences, FiniteSets, TLC

VARIABLES
    prog,       \* which entry point runs: "main", "bot", "wallet", "http"
    pc,         \* position in the running program
    clock,      \* current time, ms
    State,      \* the in-memory STATE dict (one per process)
    http,       \* the running http_post / http_get call
    resp,       \* result of the last finished http call
    busyLeft,   \* how many more calls the environment disturbs (429/503, network)
    m,          \* locals of main.py main()
    b,          \* locals of bot.py main()
    w,          \* run_wallet_auto_claim(): its environment and locals
    fn,         \* the running claim() / start_mining() call and its result
    srv,        \* the server: lastClaimTime per account, and how it answers
    hist        \* observations: what was sent, and when

vars == <<prog, pc, clock, State, http, resp, busyLeft, m, b, w, fn, srv, hist>>

----------------------------------------------------------------------------
(* Bounds of the model *)

StartMs == 172800250            \* the instant the process starts
MaxAccounts == 2                \* lines of cookie.txt
MaxSweeps == 2                  \* iterations of main.py's while True, one account
MaxSweepsMulti == 1             \* the same, several accounts
MaxSweepsDue == 2               \* the same, several accounts with upcoming deadlines
MaxIter == 4                    \* iterations of bot.py's while True
MaxBusy == 1                    \* disturbed calls during a scheduler run
MaxRetries == 3                 \* largest `retries` argument tried on its own
MaxBackoff == 3                 \* largest `backoff` argument tried on its own
MaxQuota == 3                   \* largest remainingWithdrawals the server reports
ClockCap == 259380250            \* StartMs + 24 h + 3 min: past the first deadline

(* Program constants *)

NONE == -1                      \* Python None for an optional number
TIMEDELTA_MINING_HOURS == 24
CHECK_INTERVAL_MINUTES == 15
FAST_INTERVAL_SECONDS == 60
DayMs == 86400000
PostRetries == 3
PostBackoff == 3
GetRetries == 2
GetBackoff == 2

MiningMs == TIMEDELTA_MINING_HOURS * 3600 * 1000

Max(x, y) == IF x >= y THEN x ELSE y
Min(x, y) == IF x <= y THEN x ELSE y

----------------------------------------------------------------------------
(* Time conversions *)

\* iso(dt): the instant as text, whole seconds and the fraction apart
iso(t) == <<t \div 1000, t % 1000>>

\* parse_iso(s): the instant of an iso() text
parse_iso(s) == s[1] * 1000 + s[2]

NoIso == <<NONE, 0>>            \* key absent from the state dict

\* a Date header shows whole seconds
DateHeaderMs(t) == (t \div 1000) * 1000

----------------------------------------------------------------------------
(* Responses *)

Resp(status) ==
    [status |-> status, success |-> FALSE, msg |-> "", h |-> NONE, mi |-> NONE,
     s |-> NONE, lct |-> NONE, digits |-> 0, date |-> FALSE, quota |-> 0, claimable |-> 0,
     nonce |-> 0]

NoResp == Resp(0)               \* http_post's `return None`
NetErr == Resp(-1)              \* requests.RequestException raised
Ok(r) == r.status >= 200 /\ r.status < 400      \* requests' Response.ok

RetryStatus == {429, 503}

\* the retry loop goes on after this answer
Retryable_Also500(r) == r.status = -1 \/ r.status \in RetryStatus \/ r.status = 500
Retryable(r) == r.status = -1 \/ r.status \in RetryStatus

----------------------------------------------------------------------------
(* What the server may answer *)

ActiveMsg(h, mi, s) ==
    [Resp(400) EXCEPT !.msg = "already active", !.h = h, !.mi = mi, !.s = s]

\* POST /claim.  A steady server accepts or fails with 500
ClaimAnswers ==
    IF srv.steady
    THEN { [Resp(200) EXCEPT !.success = TRUE], Resp(500) }
    ELSE { [Resp(200) EXCEPT !.success = TRUE], Resp(200), Resp(401), Resp(500) }

\* POST /mining/start: the 'already active' rejections say "come back in
\* 2 hours", "... 0 minutes", "... 5 seconds", or state no quantity at all
StartAnswers ==
    IF srv.steady
    THEN { [Resp(200) EXCEPT !.success = TRUE, !.date = srv.date], Resp(500) }
    ELSE { [Resp(200) EXCEPT !.success = TRUE, !.date = srv.date],
           Resp(200), Resp(403), Resp(500),
           ActiveMsg(2, NONE, NONE), ActiveMsg(NONE, 0, NONE),
           ActiveMsg(NONE, NONE, 5), ActiveMsg(5, 12, NONE),
           ActiveMsg(NONE, NONE, NONE) }

\* GET /dashboard: the payload shows lastClaimTime in ms or in seconds, or
\* does not show it; or the page is not served
DashboardAnswers(a) ==
    (IF srv.steady THEN { Resp(500) } ELSE { Resp(200), Resp(500) }) \cup
    IF srv.lct[a] = NONE THEN {}
    ELSE IF srv.digits = 13
    THEN { [Resp(200) EXCEPT !.lct = srv.lct[a], !.digits = 13] }
    ELSE { [Resp(200) EXCEPT !.lct = srv.lct[a] \div 1000, !.digits = 10] }

\* GET /mining
MiningPageAnswers == { Resp(200) }

\* POST /wallet/get-signature: an authorization with the quota left and the
\* claimable amount, or a refusal
SignatureAnswers ==
    { [Resp(200) EXCEPT !.success = TRUE, !.quota = q, !.claimable = c] :
          q \in 0..MaxQuota, c \in {0, 5} }
    \cup { Resp(200), Resp(500) }

\* POST /wallet/withdraw and /wallet/claim: accepted, not accepted, no such
\* endpoint, proof demanded, another rejection, server error
WithdrawAnswers ==
    { [Resp(200) EXCEPT !.success = TRUE], Resp(200), Resp(404),
      [Resp(400) EXCEPT !.msg = "transaction hash"], Resp(400), Resp(500) }

\* any endpoint, for the retry client on its own
AnyAnswers == { Resp(st) : st \in {200, 400, 401, 403, 404, 500} }

\* the retryable failures: rate limit, maintenance, network error.  During a
\* scheduler run a disturbance is an outage: 503 until the call gives up
BusyAnswers ==
    IF srv.outage THEN { Resp(503) } ELSE { Resp(429), Resp(503), NetErr }

Answers(path, a) ==
    CASE path = "/claim" -> ClaimAnswers
      [] path = "/mining/start" -> StartAnswers
      [] path = "/dashboard" -> DashboardAnswers(a)
      [] path = "/mining" -> MiningPageAnswers
      [] path = "/wallet/get-signature" -> SignatureAnswers
      [] path \in {"/wallet/withdraw", "/wallet/claim"} -> WithdrawAnswers
      [] OTHER -> AnyAnswers

----------------------------------------------------------------------------
(* http_post / http_get: the retry loop *)

NoCall ==
    [method |-> "", path |-> "", cookie |-> 0, attempt |-> 0, retries |-> 0,
     backoff |-> 0, answers |-> <<>>, kont |-> ""]

\* entering http_post(path, headers) or http_get(url, headers)
Call(method, path, cookie, retries, backoff, kont) ==
    [method |-> method, path |-> path, cookie |-> cookie, attempt |-> 1,
     retries |-> retries, backoff |-> backoff, answers |-> <<>>, kont |-> kont]

http_post(path, cookie, kont) == Call("POST", path, cookie, PostRetries, PostBackoff, kont)
http_get(path, cookie, kont) == Call("GET", path, cookie, GetRetries, GetBackoff, kont)

\* for attempt in range(1, retries + 1)
MoreAttempts(c) == c.attempt <= c.retries

\* the local clock after a sleep of d ms.  A run followed without a bound
\* on its iterations tells instants apart up to ClockCap only.
Later(d) == IF b.forever THEN Min(clock + d, ClockCap) ELSE clock + d

\* time.sleep(backoff * attempt)
BackoffMs_Flat(c) == c.backoff * 1000
BackoffMs(c) == c.backoff * c.attempt * 1000

AllAnswers(path, a) == Answers(path, a) \cup BusyAnswers

\* what a request going out means for the observations
Sent(h) ==
    [h EXCEPT
       !.starts =
           IF http.path = "/mining/start" THEN @ \cup {http.cookie} ELSE @,
       !.pendingStart =
           IF http.path = "/mining/start" /\ http.cookie = @ THEN 0 ELSE @,
       !.retryDelay =
           IF http.path = "/claim" /\ http.attempt = 1
           THEN (IF h.failAt[http.cookie] = NONE THEN NONE
                 ELSE clock - h.failAt[http.cookie])
           ELSE @,
       !.failAt =
           IF http.path = "/claim" /\ http.attempt = 1
           THEN [@ EXCEPT ![http.cookie] = NONE] ELSE @]

\* the loop is over: return None
HttpGiveUp ==
    /\ pc = "http_try"
    /\ ~MoreAttempts(http)
    /\ resp' = NoResp
    /\ pc' = http.kont
    /\ UNCHANGED <<w, prog, clock, State, http, busyLeft, m, b, fn, srv, hist>>

\* one request: on 429/503 or a network error sleep backoff * attempt and
\* go on with the next attempt
HttpBusy ==
    /\ pc = "http_try"
    /\ MoreAttempts(http)
    /\ http.answers = <<>> => busyLeft > 0
    /\ \E r \in AllAnswers(http.path, http.cookie) :
          /\ Retryable(r)
          /\ http' = [http EXCEPT !.attempt = @ + 1,
                                  !.answers = Append(@, r.status)]
    /\ clock' = Later(BackoffMs(http))
    /\ busyLeft' = IF http.answers = <<>> THEN busyLeft - 1 ELSE busyLeft
    /\ hist' = Sent(hist)
    /\ UNCHANGED <<w, prog, pc, State, resp, m, b, fn, srv>>

\* one request: any other answer is returned to the caller
HttpAnswer ==
    /\ pc = "http_try"
    /\ MoreAttempts(http)
    /\ srv.outage => http.answers = <<>>
    /\ \E r \in AllAnswers(http.path, http.cookie) :
          /\ ~Retryable(r)
          /\ resp' = r
          /\ http' = [http EXCEPT !.answers = Append(@, r.status)]
          /\ srv' = IF http.path = "/claim" /\ r.success
                    THEN [srv EXCEPT !.lct[http.cookie] = clock] ELSE srv
          /\ hist' = [Sent(hist) EXCEPT
                !.authFailed =
                    IF http.path \in {"/claim", "/mining/start"} /\ r.status \in {401, 403}
                    THEN @ \cup {http.cookie} ELSE @,
                !.pendingStart =
                    IF http.path = "/claim" /\ r.success THEN http.cookie ELSE @]
    /\ pc' = http.kont
    /\ UNCHANGED <<w, prog, clock, State, busyLeft, m, b, fn>>

Http == HttpGiveUp \/ HttpBusy \/ HttpAnswer

----------------------------------------------------------------------------
(* Text extraction *)

\* _parse_remaining_from_text: h, mi, s are the counts the three patterns
\* capture, NONE where a pattern does not match; the result is in ms,
\* NONE for `return None`
CountOf(c) == IF c = NONE THEN 0 ELSE c


_parse_remaining_from_text(h, mi, s) ==
    IF CountOf(h) = 0 /\ CountOf(mi) = 0 /\ CountOf(s) = 0
    THEN NONE
    ELSE (CountOf(h) * 3600 + CountOf(mi) * 60 + CountOf(s)) * 1000

\* _parse_last_claim_time_ms: v is the number after "lastClaimTime": and
\* `digits` the length of its digit run, NONE when the payload shows none.
\* \d{10,13} needs ten digits; a ten-digit number is below 10_000_000_000
\* and is taken as seconds
_parse_last_claim_time_ms(v, digits) ==
    IF v = NONE \/ digits < 10
    THEN NONE
    ELSE IF digits = 10 THEN v * 1000 ELSE v

\* _server_now_ms: the Date header of a HEAD request, else the local clock
_server_now_ms == IF srv.date THEN DateHeaderMs(clock) ELSE clock

\* fetch_dashboard_last_claim_ms, once http_get has returned r
fetch_dashboard_last_claim_ms(r) ==
    IF r = NoResp \/ ~Ok(r) THEN NONE ELSE _parse_last_claim_time_ms(r.lct, r.digits)

----------------------------------------------------------------------------
(* claim() and start_mining() *)

NoMsg == <<NONE, NONE, NONE>>   \* no 'already active' message on record

NoFn == [cookie |-> 0, claimKont |-> "", startKont |-> "",
         claimRes |-> FALSE, startRes |-> FALSE]

\* claim(headers) is entered: POST /claim
EnterClaim(cookie, kont) ==
    /\ fn' = [fn EXCEPT !.cookie = cookie, !.claimKont = kont, !.claimRes = FALSE]
    /\ http' = http_post("/claim", cookie, "claim_r")
    /\ pc' = "http_try"

\* start_mining(headers) is entered: POST /mining/start
EnterStart(cookie, kont) ==
    /\ fn' = [fn EXCEPT !.cookie = cookie, !.startKont = kont, !.startRes = FALSE]
    /\ http' = http_post("/mining/start", cookie, "start_r")
    /\ pc' = "http_try"

\* load_cookie(): the first line of cookie.txt
load_cookie == 1

\* claim(), after http_post returned
claim_r ==
    /\ pc = "claim_r"
    /\ IF resp # NoResp /\ Ok(resp) /\ resp.success
       THEN /\ State' = [State EXCEPT !.last_claim = iso(clock),
                                      !.last_claim_amount = 1]
            /\ IF prog = "main"
               THEN \* main.py: show the balance of the mining page
                    /\ http' = http_get("/mining", load_cookie, "claim_bal")
                    /\ pc' = "http_try"
                    /\ fn' = fn
               ELSE /\ fn' = [fn EXCEPT !.claimRes = TRUE]
                    /\ pc' = fn.claimKont
                    /\ http' = NoCall
       ELSE /\ fn' = [fn EXCEPT !.claimRes = FALSE]
            /\ pc' = fn.claimKont
            /\ State' = State
            /\ http' = NoCall
    /\ resp' = NoResp
    /\ UNCHANGED <<w, prog, clock, busyLeft, m, b, srv, hist>>

\* claim() of main.py, after the balance fetch: return True
claim_bal ==
    /\ pc = "claim_bal"
    /\ fn' = [fn EXCEPT !.claimRes = TRUE]
    /\ pc' = fn.claimKont
    /\ http' = NoCall
    /\ resp' = NoResp
    /\ UNCHANGED <<w, prog, clock, State, busyLeft, m, b, srv, hist>>

\* the remaining time start_mining assumes on a 400 'already active'
ActiveRemaining_NoFallback(r) ==
    LET rem == _parse_remaining_from_text(r.h, r.mi, r.s)
    IN IF rem = NONE THEN 0 ELSE rem
ActiveRemaining(r) ==
    IF prog = "main"
    THEN LET rem == _parse_remaining_from_text(r.h, r.mi, r.s)
         IN IF rem = NONE THEN MiningMs ELSE rem
    ELSE MiningMs

\* the start instant start_mining records on success
StartStamp(r) ==
    IF prog = "main" /\ r.date THEN DateHeaderMs(clock) ELSE clock

\* start_mining(), after http_post returned
start_r ==
    /\ pc = "start_r"
    /\ IF resp = NoResp
       THEN /\ fn' = [fn EXCEPT !.startRes = FALSE]
            /\ State' = State
            /\ hist' = [hist EXCEPT !.activeAt = NONE, !.activeMsg = NoMsg]
       ELSE IF ~Ok(resp)
       THEN IF resp.status = 400 /\ resp.msg = "already active"
            THEN LET next_claim_at == clock + ActiveRemaining(resp)
                     last_start_est == next_claim_at - MiningMs
                 IN /\ State' = [State EXCEPT !.last_start = iso(last_start_est)]
                    /\ fn' = [fn EXCEPT !.startRes = TRUE]
                    /\ hist' = [hist EXCEPT !.activeAt = clock,
                                             !.activeMsg = <<resp.h, resp.mi, resp.s>>,
                                             !.owner = fn.cookie]
            ELSE /\ fn' = [fn EXCEPT !.startRes = FALSE]
                 /\ State' = State
                 /\ hist' = [hist EXCEPT !.activeAt = NONE, !.activeMsg = NoMsg]
       ELSE IF resp.success
       THEN /\ State' = [State EXCEPT !.last_start = iso(StartStamp(resp))]
            /\ fn' = [fn EXCEPT !.startRes = TRUE]
            /\ hist' = [hist EXCEPT !.activeAt = NONE, !.activeMsg = NoMsg,
                                     !.owner = fn.cookie]
       ELSE /\ fn' = [fn EXCEPT !.startRes = FALSE]
            /\ State' = State
            /\ hist' = [hist EXCEPT !.activeAt = NONE, !.activeMsg = NoMsg]
    /\ pc' = fn.startKont
    /\ http' = NoCall
    /\ resp' = NoResp
    /\ UNCHANGED <<w, prog, clock, busyLeft, m, b, srv>>

Functions == claim_r \/ claim_bal \/ start_r

----------------------------------------------------------------------------
(* main.py: main() *)

NoState == [last_start |-> NoIso, last_claim |-> NoIso, last_claim_amount |-> NONE]

NoMain ==
    [n |-> 0, MULTI_LIVE |-> FALSE, first_run |-> FALSE, idx |-> 0,
     srv_ms_loop |-> 0, earliest_ms |-> NONE, targets |-> <<>>,
     lct_ms |-> NONE, next_claim_at |-> NONE, resolved |-> "",
     sweeps |-> 0, slept |-> "", sleep_ms |-> 0, now2 |-> 0, ticks |-> 0,
     maxSweeps |-> 0, prev |-> <<>>, firstClaim |-> 0, evald |-> <<>>, skipped |-> {},
     cap |-> 0, t0 |-> 0, now_ms |-> 0, requested |-> FALSE, always |-> FALSE]

single_mode == m.n = 1

\* how a run is set up: whether a live countdown is requested (DIGXE_LIVE,
\* DIGXE_MULTI_LIVE, --live, --live-all, -l) and the ALWAYS_LIVE_COUNTDOWN
\* line of the configuration block, True as shipped
LiveSettings ==
    { [requested |-> FALSE, always |-> TRUE],
      [requested |-> TRUE, always |-> TRUE],
      [requested |-> FALSE, always |-> FALSE] }

\* MULTI_LIVE = DIGXE_MULTI_LIVE or --live-all/--live or ALWAYS_LIVE_COUNTDOWN,
\* the latter also set by DIGXE_LIVE, --live and -l
MultiLive(requested, always) == requested \/ always

\* `single_mode or MULTI_LIVE`
LiveMode == single_mode \/ m.MULTI_LIVE

\* how many sweeps the model follows
SweepBound == m.maxSweeps

\* while True: a sweep begins
main_sweep ==
    /\ pc = "m_sweep"
    /\ m.sweeps < SweepBound
    /\ m' = [m EXCEPT !.earliest_ms = NONE,
                         !.srv_ms_loop = _server_now_ms,
                         !.cap = clock,
                         !.targets = <<>>,
                         !.prev = m.targets,
                         !.firstClaim = 0,
                         !.evald = <<>>,
                         !.skipped = {},
                         !.idx = 1,
                         !.sweeps = @ + 1,
                         !.slept = ""]
    /\ hist' = [hist EXCEPT !.starts = {}]
    /\ pc' = "m_acct"
    /\ UNCHANGED <<w, prog, clock, State, http, resp, busyLeft, b, fn, srv>>

\* for idx, ck in enumerate(cookies, start=1): next account, or the sweep is over
main_acct ==
    /\ pc = "m_acct"
    /\ IF m.idx > m.n
       THEN /\ pc' = "m_end"
            /\ UNCHANGED <<m, fn, http>>
       ELSE /\ m' = [m EXCEPT !.lct_ms = NONE, !.next_claim_at = NONE, !.resolved = "",
                              !.firstClaim = IF m.first_run /\ @ = 0 THEN m.idx ELSE @,
                              !.evald = IF m.first_run THEN @ ELSE Append(@, m.idx)]
            /\ IF m.first_run
               THEN EnterClaim(m.idx, "m_fr_claimed")
               ELSE /\ http' = http_get("/dashboard", m.idx, "m_dash_r")
                    /\ pc' = "http_try"
                    /\ fn' = fn
    /\ UNCHANGED <<w, prog, clock, State, resp, busyLeft, b, srv, hist>>

\* first_run: the claim returned; start_mining in either case
main_fr_claimed ==
    /\ pc = "m_fr_claimed"
    /\ EnterStart(m.idx, "m_fr_started")
    /\ UNCHANGED <<w, prog, clock, State, resp, busyLeft, m, b, srv, hist>>

\* first_run: sleep 2 after a claim, 1 otherwise; then the dashboard
main_fr_started ==
    /\ pc = "m_fr_started"
    /\ clock' = clock + (IF fn.claimRes THEN 2000 ELSE 1000)
    /\ http' = http_get("/dashboard", m.idx, "m_dash_r")
    /\ pc' = "http_try"
    /\ m' = [m EXCEPT !.evald = Append(@, m.idx)]
    /\ UNCHANGED <<w, prog, State, resp, busyLeft, b, fn, srv, hist>>

\* the deadline by the dashboard's lastClaimTime
DeadlineOfDashboard_PreferLocal(lct) ==
    IF State.last_start # NoIso
    THEN parse_iso(State.last_start) + MiningMs
    ELSE lct + 86400000
DeadlineOfDashboard(lct) == lct + 86400000

\* the deadline by the recorded start
DeadlineOfState == parse_iso(State.last_start) + MiningMs

\* `if last_start_iso:` the local record exists
HasLocal_never(st) == FALSE
HasLocal(st) == st.last_start # NoIso

\* lct_ms = fetch_dashboard_last_claim_ms(ck), and the deadline from it
main_dash_r ==
    /\ pc = "m_dash_r"
    /\ LET lct == fetch_dashboard_last_claim_ms(resp)
       IN IF lct = NONE
          THEN IF HasLocal(State)
               THEN /\ m' = [m EXCEPT !.lct_ms = lct,
                                      !.next_claim_at = DeadlineOfState,
                                      !.resolved = "local"]
                    /\ pc' = "m_check"
                    /\ http' = NoCall
                    /\ fn' = fn
               ELSE /\ m' = [m EXCEPT !.lct_ms = lct]
                    /\ EnterStart(m.idx, "m_res_started")
          ELSE /\ m' = [m EXCEPT !.lct_ms = lct,
                                 !.next_claim_at = DeadlineOfDashboard(lct),
                                 !.resolved = "dashboard"]
               /\ pc' = "m_check"
               /\ http' = NoCall
               /\ fn' = fn
    /\ resp' = NoResp
    /\ UNCHANGED <<w, prog, clock, State, busyLeft, b, srv, hist>>

\* `continue` for an account without any anchor: the loop goes on with the
\* next account
AfterSkip_Abort(idx) == m.n + 1
AfterSkip(idx) == idx + 1

\* after the synchronising start_mining: the state has a start, or skip
main_res_started ==
    /\ pc = "m_res_started"
    /\ IF State.last_start # NoIso
       THEN /\ m' = [m EXCEPT !.next_claim_at = DeadlineOfState, !.resolved = "start"]
            /\ pc' = "m_check"
       ELSE /\ m' = [m EXCEPT !.idx = AfterSkip(@), !.skipped = @ \cup {m.idx}]
            /\ pc' = "m_acct"
    /\ UNCHANGED <<w, prog, clock, State, http, resp, busyLeft, b, fn, srv, hist>>

\* remaining <= 0
Due_Early(remaining) == remaining <= 5000
Due(remaining) == remaining <= 0

\* remaining = next_claim_at - now_dt_loop: claim, or track the target
main_check ==
    /\ pc = "m_check"
    /\ LET remaining == m.next_claim_at - m.srv_ms_loop
           total_sec == remaining \div 1000
           cand == m.srv_ms_loop + total_sec * 1000
       IN IF Due(remaining)
          THEN /\ EnterClaim(m.idx, "m_due_claimed")
               /\ m' = [m EXCEPT !.firstClaim = IF @ = 0 THEN m.idx ELSE @]
          ELSE /\ m' = [m EXCEPT
                     !.earliest_ms = IF @ = NONE \/ cand < @ THEN cand ELSE @,
                     !.targets = Append(@, [label |-> m.idx, next |-> m.next_claim_at]),
                     !.idx = @ + 1]
               /\ pc' = "m_acct"
               /\ UNCHANGED <<fn, http>>
    /\ UNCHANGED <<w, prog, clock, State, resp, busyLeft, b, srv, hist>>

\* the due claim returned: start_mining after a success
main_due_claimed ==
    /\ pc = "m_due_claimed"
    /\ IF fn.claimRes
       THEN /\ EnterStart(m.idx, "m_due_sleep")
            /\ hist' = hist
       ELSE /\ pc' = "m_due_sleep"
            /\ hist' = [hist EXCEPT !.failAt[m.idx] = clock]
            /\ UNCHANGED <<fn, http>>
    /\ UNCHANGED <<w, prog, clock, State, resp, busyLeft, m, b, srv>>

\* time.sleep(2); continue
main_due_sleep ==
    /\ pc = "m_due_sleep"
    /\ clock' = clock + 2000
    /\ m' = [m EXCEPT !.idx = @ + 1]
    /\ pc' = "m_acct"
    /\ UNCHANGED <<w, prog, State, http, resp, busyLeft, b, fn, srv, hist>>

\* the earliest deadline among the targets of the sweep
RECURSIVE MinNext(_)
MinNext(targets) ==
    IF Len(targets) = 1 THEN targets[1].next
    ELSE Min(targets[1].next, MinNext(Tail(targets)))

\* rem = max(0, int((next_dt - now_dt).total_seconds())), least over the targets
MinRem(targets, now_ms) ==
    LET d == MinNext(targets) - now_ms
    IN IF d > 0 THEN d \div 1000 ELSE 0

\* _multi_countdown_until(targets, base_server_ms): how many times the loop
\* sleeps one second before min_rem <= 0.  The loop's clock is
\* base_ms + (time.time() - t0), so after k sleeps min_rem is
\* MinRem(targets, base_ms + 1000 k): the loop leaves at the least such k,
\* which is the whole seconds between base_ms and the earliest deadline.
CountdownTicks(targets, base_ms) == MinRem(targets, base_ms)

\* sleep_s = max(5, min(ahead_ms / 1000, CHECK_INTERVAL_MINUTES * 60)), in ms
PollSleepMs_NoFloor(ahead_ms) == Min(ahead_ms, CHECK_INTERVAL_MINUTES * 60 * 1000)
PollSleepMs(ahead_ms) == Max(5000, Min(ahead_ms, CHECK_INTERVAL_MINUTES * 60 * 1000))

\* a sweep that ends in a sleep switches first_run off
FirstRunAfterLive(fr) == fr

\* after the for loop: sleep, or count down to the earliest target
main_end ==
    /\ pc = "m_end"
    /\ IF m.earliest_ms = NONE
       THEN /\ clock' = clock + CHECK_INTERVAL_MINUTES * 60 * 1000
            /\ m' = [m EXCEPT !.slept = "none",
                              !.sleep_ms = CHECK_INTERVAL_MINUTES * 60 * 1000,
                              !.first_run = FALSE]
       ELSE IF LiveMode
       THEN LET ticks == CountdownTicks(m.targets, m.srv_ms_loop)
            IN /\ clock' = clock + ticks * 1000
               /\ m' = [m EXCEPT !.slept = "live", !.ticks = ticks,
                                 !.sleep_ms = ticks * 1000,
                                 !.t0 = clock,
                                 !.now_ms = m.srv_ms_loop + ticks * 1000,
                                 !.first_run = FirstRunAfterLive(@)]
       ELSE    LET now2 == _server_now_ms
                   ahead_ms == Max(0, m.earliest_ms - now2)
                   sleep_ms == PollSleepMs(ahead_ms)
               IN /\ clock' = clock + sleep_ms
                  /\ m' = [m EXCEPT !.slept = "poll", !.sleep_ms = sleep_ms,
                                    !.now2 = now2, !.first_run = FALSE]
    /\ pc' = "m_sweep"
    /\ UNCHANGED <<w, prog, State, http, resp, busyLeft, b, fn, srv, hist>>

\* where a KeyboardInterrupt raised at `kont` lands: no handler inside
\* main() catches it, `except KeyboardInterrupt` of __main__ logs and the
\* process ends
Landing_Swallowed(kont) == kont
Landing(kont) == "stopped"

\* the sleep or countdown main_end is about to make, in ms
InterSweepSleepMs ==
    IF m.earliest_ms = NONE THEN CHECK_INTERVAL_MINUTES * 60 * 1000
    ELSE IF LiveMode THEN CountdownTicks(m.targets, m.srv_ms_loop) * 1000
    ELSE PollSleepMs(Max(0, m.earliest_ms - _server_now_ms))

\* the stop signal arrives d ms into the sleep or countdown after a sweep
main_interrupt ==
    /\ pc = "m_end"
    /\ \E d \in {0, 1000} :
          /\ d <= InterSweepSleepMs
          /\ clock' = clock + d
    /\ pc' = Landing("m_sweep")
    /\ hist' = [hist EXCEPT !.stopped = TRUE, !.stopMsg = (pc' = "stopped")]
    /\ UNCHANGED <<w, prog, State, http, resp, busyLeft, m, b, fn, srv>>

Main ==
    \/ main_sweep \/ main_acct \/ main_fr_claimed \/ main_fr_started
    \/ main_dash_r \/ main_res_started \/ main_check \/ main_due_claimed
    \/ main_due_sleep \/ main_end \/ main_interrupt

----------------------------------------------------------------------------
(* bot.py: main() *)

NoBot == [live |-> FALSE, iter |-> 0, next_claim_at |-> NONE, slept |-> "",
          forever |-> FALSE]

NEARLY_DUE_MINUTES == 30

\* _countdown_until(target_dt): how many times the loop sleeps one second
\* before target_dt - utcnow() <= 0
CountdownSleeps(remaining) == (remaining + 999) \div 1000

\* now >= next_claim_at
BotDue(now, next_claim_at) == now >= next_claim_at

\* from `last_start = parse_iso(state["last_start"])` on: claim now, count
\* down and claim, or sleep the long interval
BotEval(b1) ==
    LET last_start == parse_iso(State.last_start)
        next_claim_at == last_start + MiningMs
        now == clock
        remaining == next_claim_at - now
    IN /\ b1.forever => next_claim_at <= ClockCap
       /\ IF BotDue(now, next_claim_at)
          THEN /\ EnterClaim(load_cookie, "b_claimed")
               /\ clock' = clock
               /\ b' = [b1 EXCEPT !.next_claim_at = next_claim_at, !.slept = ""]
          ELSE IF b1.live \/ remaining <= NEARLY_DUE_MINUTES * 60 * 1000
          THEN /\ EnterClaim(load_cookie, "b_claimed")
               /\ clock' = Later(CountdownSleeps(remaining) * 1000)
               /\ b' = [b1 EXCEPT !.next_claim_at = next_claim_at, !.slept = "countdown"]
          ELSE /\ clock' = Later(CHECK_INTERVAL_MINUTES * 60 * 1000)
               /\ b' = [b1 EXCEPT !.next_claim_at = next_claim_at, !.slept = "long"]
               /\ pc' = "b_loop"
               /\ UNCHANGED <<fn, http>>

\* while True: start first when the state has no last_start
bot_loop ==
    /\ pc = "b_loop"
    /\ b.forever \/ b.iter < MaxIter
    /\ IF State.last_start = NoIso
       THEN /\ EnterStart(load_cookie, "b_started")
            /\ b' = [b EXCEPT !.iter = IF b.forever THEN @ ELSE @ + 1]
            /\ clock' = clock
       ELSE BotEval([b EXCEPT !.iter = IF b.forever THEN @ ELSE @ + 1])
    /\ UNCHANGED <<w, prog, State, resp, busyLeft, m, srv, hist>>

\* the first start_mining returned: retry in 30 s, or go on in this iteration
bot_started ==
    /\ pc = "b_started"
    /\ IF ~fn.startRes
       THEN /\ clock' = Later(30000)
            /\ b' = [b EXCEPT !.slept = "retry"]
            /\ pc' = "b_loop"
            /\ UNCHANGED <<fn, http>>
       ELSE BotEval(b)
    /\ UNCHANGED <<w, prog, State, resp, busyLeft, m, srv, hist>>

\* the claim returned: start again after a success; sleep 60 s either way
bot_claimed ==
    /\ pc = "b_claimed"
    /\ IF fn.claimRes
       THEN /\ EnterStart(load_cookie, "b_restarted")
            /\ UNCHANGED <<clock, b, hist>>
       ELSE /\ clock' = Later(FAST_INTERVAL_SECONDS * 1000)
            /\ b' = [b EXCEPT !.slept = "fast"]
            /\ hist' = [hist EXCEPT !.failAt[load_cookie] = clock]
            /\ pc' = "b_loop"
            /\ UNCHANGED <<fn, http>>
    /\ UNCHANGED <<w, prog, State, resp, busyLeft, m, srv>>

\* start_mining after the claim returned: time.sleep(FAST_INTERVAL_SECONDS)
bot_restarted ==
    /\ pc = "b_restarted"
    /\ clock' = Later(FAST_INTERVAL_SECONDS * 1000)
    /\ b' = [b EXCEPT !.slept = "fast"]
    /\ pc' = "b_loop"
    /\ UNCHANGED <<w, prog, State, http, resp, busyLeft, m, fn, srv, hist>>

\* the stop signal arrives d ms into the countdown or the long sleep of an
\* iteration whose deadline has not arrived
bot_interrupt ==
    /\ pc = "b_loop"
    /\ b.iter < MaxIter
    /\ State.last_start # NoIso
    /\ ~BotDue(clock, parse_iso(State.last_start) + MiningMs)
    /\ \E d \in {0, 1000} : clock' = clock + d
    /\ pc' = Landing("b_loop")
    /\ hist' = [hist EXCEPT !.stopped = TRUE, !.stopMsg = (pc' = "stopped")]
    /\ UNCHANGED <<w, prog, State, http, resp, busyLeft, m, b, fn, srv>>

Bot == bot_loop \/ bot_started \/ bot_claimed \/ bot_restarted \/ bot_interrupt

----------------------------------------------------------------------------
(* main.py: run_wallet_auto_claim() *)

\* Transaction hashes are numbered: 0 is no hash, 1 the TX_HASH override,
\* 2 what txhash.txt holds before the run, 3 what the operator types, and
\* 10 + k what the k-th broadcast of the run returns.
NoHash == 0
EnvHash == 1
FileHash == 2
TypedHash == 3
BroadcastHash(k) == 10 + k

WALLET_AUTO_SLEEP_AFTER_CLAIM_SEC == 5

NoWallet ==
    [pk |-> FALSE, addr |-> FALSE, TX_HASH |-> NoHash, file |-> NoHash,
     web3 |-> FALSE, NON_INTERACTIVE |-> TRUE,
     reported |-> FALSE, quota |-> 0, to_do |-> 0, i |-> 0, cand |-> 0, txh |-> NoHash,
     sigs |-> 0, attempts |-> 0, broadcasts |-> 0, lookups |-> <<>>, ok |-> FALSE,
     answers |-> <<>>, failed |-> FALSE, lastClaimable |-> NONE]

\* candidates = [WALLET_WITHDRAW_PATH, "/wallet/claim"]
candidates == << "/wallet/withdraw", "/wallet/claim" >>

\* _broadcast_onchain_and_get_hash: None without web3, RPC or contract
\* settings and on any exception, else the hash of the transaction sent
_broadcast_onchain_and_get_hash(e, sent) ==
    IF ~e.web3 THEN NoHash
    ELSE IF sent THEN BroadcastHash(e.broadcasts + 1) ELSE NoHash

\* _obtain_tx_hash: TX_HASH, then txhash.txt, then a broadcast whose hash is
\* written to txhash.txt, then the prompt.  readOk and writeOk tell whether
\* reading and writing txhash.txt work (an exception is swallowed), sent
\* whether the broadcast goes through, typed whether the operator types a
\* well-formed hash.  Gives the hash, the file afterwards, what the
\* broadcast returned, and whether the broadcaster was called and the
\* operator asked.
Lookup(txh, file, bhash, tried, asked) ==
    [txh |-> txh, file |-> file, bhash |-> bhash, tried |-> tried, asked |-> asked]

_obtain_tx_hash_file_first(e, readOk, sent, writeOk, typed) ==
    LET bh == _broadcast_onchain_and_get_hash(e, sent)
    IN IF readOk /\ e.file # NoHash
       THEN Lookup(e.file, e.file, NoHash, FALSE, FALSE)
       ELSE IF e.TX_HASH # NoHash
       THEN Lookup(e.TX_HASH, e.file, NoHash, FALSE, FALSE)
       ELSE IF bh # NoHash
       THEN Lookup(bh, IF writeOk THEN bh ELSE e.file, bh, TRUE, FALSE)
       ELSE IF e.NON_INTERACTIVE
       THEN Lookup(NoHash, e.file, NoHash, TRUE, FALSE)
       ELSE Lookup(IF typed THEN TypedHash ELSE NoHash, e.file, NoHash, TRUE, TRUE)

_obtain_tx_hash(e, readOk, sent, writeOk, typed) ==
    LET bh == _broadcast_onchain_and_get_hash(e, sent)
    IN IF e.TX_HASH # NoHash
       THEN Lookup(e.TX_HASH, e.file, NoHash, FALSE, FALSE)
       ELSE IF readOk /\ e.file # NoHash
       THEN Lookup(e.file, e.file, NoHash, FALSE, FALSE)
       ELSE IF bh # NoHash
       THEN Lookup(bh, IF writeOk THEN bh ELSE e.file, bh, TRUE, FALSE)
       ELSE IF e.NON_INTERACTIVE
       THEN Lookup(NoHash, e.file, NoHash, TRUE, FALSE)
       ELSE Lookup(IF typed THEN TypedHash ELSE NoHash, e.file, NoHash, TRUE, TRUE)

\* wallet_get_signature, once http_post has returned r: the data, or None
SignatureOf(r) == IF r = NoResp \/ ~r.success THEN NoResp ELSE r

\* to_do = min(2, remaining)
to_do_all(remaining) == remaining
to_do(remaining) == Min(2, remaining)

\* `if this_claimable <= 0` and `claimable_amount <= 0`
NothingClaimable_negative(c) == c < 0
NothingClaimable(c) == c <= 0

\* `if not ok: break` and `if not sig: break`
Breaks_never(ok) == FALSE
Breaks(ok) == ~ok

\* the answer to a submission, as wallet_withdraw reads it: the status (0
\* for no response) and whether it demands a transaction hash
Heard(w0) ==
    [w0 EXCEPT !.answers = Append(@,
        [cand |-> w0.cand, status |-> resp.status,
         need |-> resp.status = 400 /\ resp.msg = "transaction hash"])]

\* sig = wallet_get_signature(headers, addr)
RequestSignature(w1) ==
    /\ w' = [w1 EXCEPT !.sigs = @ + 1]
    /\ http' = http_post("/wallet/get-signature", load_cookie, "w_sig_r")
    /\ pc' = "http_try"

\* wallet_withdraw returns ok to the loop of run_wallet_auto_claim
WithdrawReturns(ok, w1) ==
    IF Breaks(ok)
    THEN /\ w' = [w1 EXCEPT !.ok = FALSE]
         /\ pc' = "w_done"
         /\ http' = NoCall
         /\ clock' = clock
    ELSE IF w1.i < w1.to_do - 1
    THEN /\ clock' = clock + WALLET_AUTO_SLEEP_AFTER_CLAIM_SEC * 1000
         /\ RequestSignature([w1 EXCEPT !.ok = TRUE, !.i = @ + 1])
    ELSE /\ w' = [w1 EXCEPT !.ok = TRUE, !.i = @ + 1]
         /\ pc' = "w_done"
         /\ http' = NoCall
         /\ clock' = clock

\* `continue` in wallet_withdraw: the next candidate, or return False
NextCandidate(w1) ==
    IF w1.cand < Len(candidates)
    THEN /\ w' = [w1 EXCEPT !.cand = @ + 1]
         /\ http' = http_post(candidates[w1.cand + 1], load_cookie, "w_submit_r")
         /\ pc' = "http_try"
         /\ clock' = clock
    ELSE WithdrawReturns(FALSE, [w1 EXCEPT !.failed = TRUE])

\* run_wallet_auto_claim is entered: key and address, then the first
\* get-signature request
wallet_begin ==
    /\ pc = "w_begin"
    /\ IF ~w.pk \/ ~w.addr
       THEN /\ pc' = "w_done"
            /\ UNCHANGED <<http, w>>
       ELSE /\ http' = http_post("/wallet/get-signature", load_cookie, "w_info_r")
            /\ pc' = "http_try"
            /\ w' = w
    /\ UNCHANGED <<prog, clock, State, resp, busyLeft, m, b, fn, srv, hist>>

\* info = wallet_get_signature(...): the quota and the claimable amount
wallet_info_r ==
    /\ pc = "w_info_r"
    /\ LET info == SignatureOf(resp)
       IN IF info = NoResp
          THEN /\ pc' = "w_done"
               /\ http' = NoCall
               /\ w' = [w EXCEPT !.failed = TRUE]
          ELSE IF info.quota <= 0 \/ NothingClaimable(info.claimable)
          THEN /\ pc' = "w_done"
               /\ http' = NoCall
               /\ w' = [w EXCEPT !.reported = TRUE, !.quota = info.quota,
                                 !.lastClaimable = info.claimable]
          ELSE RequestSignature([w EXCEPT !.reported = TRUE, !.quota = info.quota,
                                          !.lastClaimable = info.claimable,
                                          !.to_do = to_do(info.quota), !.i = 0])
    /\ resp' = NoResp
    /\ UNCHANGED <<prog, clock, State, busyLeft, m, b, fn, srv, hist>>

\* the loop body after wallet_get_signature: break, or enter wallet_withdraw
wallet_sig_r ==
    /\ pc = "w_sig_r"
    /\ LET sig == SignatureOf(resp)
           w0 == IF sig = NoResp
                 THEN [w EXCEPT !.failed = TRUE, !.lastClaimable = NONE]
                 ELSE [w EXCEPT !.lastClaimable = sig.claimable]
       IN IF Breaks(sig # NoResp)
          THEN /\ pc' = "w_done"
               /\ http' = NoCall
               /\ w' = w0
          ELSE IF sig # NoResp /\ NothingClaimable(sig.claimable)
          THEN /\ pc' = "w_done"
               /\ http' = NoCall
               /\ w' = w0
          ELSE /\ w' = [w0 EXCEPT !.attempts = @ + 1, !.cand = 1, !.txh = NoHash,
                                  !.lookups = <<>>, !.answers = <<>>]
               /\ http' = http_post(candidates[1], load_cookie, "w_submit_r")
               /\ pc' = "http_try"
    /\ resp' = NoResp
    /\ UNCHANGED <<prog, clock, State, busyLeft, m, b, fn, srv, hist>>

\* what wallet_withdraw and its callees do to STATE: they never call
\* load_state or save_state
StateAfterWithdraw_Recorded(st) == [st EXCEPT !.last_claim = iso(clock)]
StateAfterWithdraw(st) == st

\* wallet_withdraw, after the submission to a candidate returned
wallet_submit_r ==
    /\ pc = "w_submit_r"
    /\ IF resp = NoResp \/ resp.status = 404
       THEN NextCandidate(Heard(w))
       ELSE IF resp.status = 400 /\ resp.msg = "transaction hash"
       THEN \E readOk, sent, writeOk, typed \in BOOLEAN :
               LET o == _obtain_tx_hash(w, readOk, sent, writeOk, typed)
                   w1 == [Heard(w) EXCEPT !.file = o.file, !.txh = o.txh,
                             !.broadcasts = IF o.bhash # NoHash THEN @ + 1 ELSE @,
                             !.lookups = Append(@, [txh |-> o.txh, bhash |-> o.bhash,
                                                   tried |-> o.tried, asked |-> o.asked,
                                                   override |-> w.TX_HASH,
                                                   cached |-> IF readOk THEN w.file
                                                              ELSE NoHash])]
               IN IF o.txh = NoHash
                  THEN NextCandidate(w1)
                  ELSE /\ w' = w1
                       /\ http' = http_post(candidates[w.cand], load_cookie, "w_resubmit_r")
                       /\ pc' = "http_try"
                       /\ clock' = clock
       ELSE IF Ok(resp) /\ resp.success
       THEN WithdrawReturns(TRUE, Heard(w))
       ELSE NextCandidate(Heard(w))
    /\ resp' = NoResp
    /\ State' = StateAfterWithdraw(State)
    /\ UNCHANGED <<prog, busyLeft, m, b, fn, srv, hist>>

\* wallet_withdraw, after the resubmission with the hash returned
wallet_resubmit_r ==
    /\ pc = "w_resubmit_r"
    /\ IF resp # NoResp /\ Ok(resp) /\ resp.success
       THEN WithdrawReturns(TRUE, Heard(w))
       ELSE NextCandidate(Heard(w))
    /\ resp' = NoResp
    /\ State' = StateAfterWithdraw(State)
    /\ UNCHANGED <<prog, busyLeft, m, b, fn, srv, hist>>

Wallet ==
    wallet_begin \/ wallet_info_r \/ wallet_sig_r \/ wallet_submit_r \/ wallet_resubmit_r

----------------------------------------------------------------------------
(* Specifications *)

NoHist ==
    [authFailed |-> {}, pendingStart |-> 0, activeAt |-> NONE, activeMsg |-> NoMsg,
     failAt |-> [a \in 1..(MaxAccounts + 1) |-> NONE], retryDelay |-> NONE,
     owner |-> 0, starts |-> {}, stopped |-> FALSE, stopMsg |-> FALSE]

\* lastClaimTime on the server when the process starts: none yet, due since
\* 3 s, due in 2.6 s, due in 61.4 s
LctAtStart ==
    { NONE, StartMs - DayMs - 3000, StartMs - DayMs + 2600, StartMs - DayMs + 61400 }

\* a server that sends Date headers and shows lastClaimTime in ms, and one
\* that sends no Date header and shows it in seconds
ServerProfiles == { [date |-> TRUE, digits |-> 13], [date |-> FALSE, digits |-> 10] }

Quiet ==
    /\ clock = StartMs
    /\ State = NoState
    /\ http = NoCall
    /\ resp = NoResp
    /\ fn = NoFn
    /\ hist = NoHist

\* python main.py, with 1..MaxAccounts lines in cookie.txt
InitMain ==
    /\ Quiet
    /\ prog = "main"
    /\ pc = "m_sweep"
    /\ \E n \in 1..MaxAccounts, set \in LiveSettings :
          \* a single account counts down whatever is requested
          /\ n = 1 => ~set.requested
          /\ m = [NoMain EXCEPT !.n = n, !.requested = set.requested,
                             !.always = set.always,
                             !.MULTI_LIVE = MultiLive(set.requested, set.always),
                             !.first_run = TRUE,
                             !.maxSweeps = IF n = 1 THEN MaxSweeps ELSE MaxSweepsMulti]
    /\ busyLeft = MaxBusy
    /\ b = NoBot
    /\ w = NoWallet
    /\ \E lct \in [1..(MaxAccounts + 1) -> LctAtStart], profile \in ServerProfiles :
          /\ \A a \in 1..(MaxAccounts + 1) : a > m.n => lct[a] = NONE
          /\ srv = [lct |-> lct, date |-> profile.date, digits |-> profile.digits,
                    outage |-> TRUE, steady |-> FALSE]

NextMain == Http \/ Functions \/ Main

SpecMain == InitMain /\ [][NextMain]_vars

\* python bot.py: one account, the first line of cookie.txt
InitBot ==
    /\ Quiet
    /\ prog = "bot"
    /\ pc = "b_loop"
    /\ busyLeft = MaxBusy
    /\ m = NoMain
    /\ w = NoWallet
    /\ \E live \in BOOLEAN : b = [NoBot EXCEPT !.live = live]
    /\ \E lct \in [1..(MaxAccounts + 1) -> LctAtStart], profile \in ServerProfiles :
          /\ \A a \in 1..(MaxAccounts + 1) : a > 1 => lct[a] = NONE
          /\ srv = [lct |-> lct, date |-> profile.date, digits |-> profile.digits,
                    outage |-> TRUE, steady |-> FALSE]

NextBot == Http \/ claim_r \/ start_r \/ Bot

SpecBot == InitBot /\ [][NextBot]_vars

\* python bot.py left running: the loop goes on for ever, nothing stops it,
\* and every step that can be taken is taken
InitBotForever ==
    /\ Quiet
    /\ prog = "bot"
    /\ pc = "b_loop"
    /\ busyLeft = MaxBusy
    /\ m = NoMain
    /\ w = NoWallet
    /\ \E live \in BOOLEAN : b = [NoBot EXCEPT !.live = live, !.forever = TRUE]
    /\ srv = [lct |-> [a \in 1..(MaxAccounts + 1) |-> NONE], date |-> FALSE,
              digits |-> 13, outage |-> TRUE, steady |-> FALSE]

NextBotForever ==
    \/ Http \/ claim_r \/ start_r
    \/ bot_loop \/ bot_started \/ bot_claimed \/ bot_restarted

SpecBotForever == InitBotForever /\ [][NextBotForever]_vars /\ WF_vars(NextBotForever)

\* either scheduler
Init == InitMain \/ InitBot

Next == Http \/ Functions \/ Main \/ Bot

Spec == Init /\ [][Next]_vars

\* python main.py with two or more accounts whose deadlines on the server
\* are upcoming and distinct, followed over MaxSweepsDue sweeps against a
\* steady server
UpcomingAtStart == { StartMs - DayMs + 2600, StartMs - DayMs + 61400 }

InitMulti ==
    /\ Quiet
    /\ prog = "main"
    /\ pc = "m_sweep"
    /\ \E n \in 2..MaxAccounts, set \in LiveSettings :
          m = [NoMain EXCEPT !.n = n, !.requested = set.requested,
                             !.always = set.always,
                             !.MULTI_LIVE = MultiLive(set.requested, set.always),
                             !.first_run = TRUE,
                             !.maxSweeps = MaxSweepsDue]
    /\ busyLeft = MaxBusy
    /\ b = NoBot
    /\ w = NoWallet
    /\ \E lct \in [1..(MaxAccounts + 1) -> UpcomingAtStart \cup {NONE}],
          profile \in ServerProfiles :
          /\ \A a \in 1..(MaxAccounts + 1) : lct[a] = NONE <=> a > m.n
          /\ \A a, a2 \in 1..m.n : a # a2 => lct[a] # lct[a2]
          /\ srv = [lct |-> lct, date |-> profile.date, digits |-> profile.digits,
                    outage |-> TRUE, steady |-> TRUE]

SpecMulti == InitMulti /\ [][NextMain]_vars

\* lastClaimTime on the server when the process starts: due in 0.6 s, due
\* in 2.6 s
SoonAtStart == { StartMs - DayMs + 600, StartMs - DayMs + 2600 }

\* python main.py as shipped with one account whose deadline is about to
\* arrive, against a steady server
InitSoon ==
    /\ Quiet
    /\ prog = "main"
    /\ pc = "m_sweep"
    /\ m = [NoMain EXCEPT !.n = 1, !.requested = FALSE, !.always = TRUE,
                          !.MULTI_LIVE = MultiLive(FALSE, TRUE),
                          !.first_run = TRUE, !.maxSweeps = MaxSweepsDue]
    /\ busyLeft = MaxBusy
    /\ b = NoBot
    /\ w = NoWallet
    /\ \E soon \in SoonAtStart, profile \in ServerProfiles :
          srv = [lct |-> [a \in 1..(MaxAccounts + 1) |-> IF a = 1 THEN soon ELSE NONE],
                 date |-> profile.date, digits |-> profile.digits,
                 outage |-> TRUE, steady |-> TRUE]

SpecSoon == InitSoon /\ [][NextMain]_vars

\* the retry client on its own: one call of http_post or http_get with any
\* `retries` and `backoff`, every answer possible at every attempt
InitHttp ==
    /\ clock = StartMs
    /\ State = NoState
    /\ resp = NoResp
    /\ fn = NoFn
    /\ hist = NoHist
    /\ \E call \in { <<"POST", "/wallet/info">>, <<"GET", "/dashboard">> },
          retries \in 0..MaxRetries, backoff \in 1..MaxBackoff :
          http = Call(call[1], call[2], 1, retries, backoff, "returned")
    /\ prog = "http"
    /\ pc = "http_try"
    /\ m = NoMain
    /\ b = NoBot
    /\ w = NoWallet
    /\ busyLeft = 1
    /\ srv = [lct |-> [a \in 1..(MaxAccounts + 1) |-> NONE], date |-> FALSE,
              digits |-> 13, outage |-> FALSE, steady |-> FALSE]

NextHttp == Http

SpecHttp == InitHttp /\ [][NextHttp]_vars

\* run_wallet_auto_claim(), in any environment: key and address there or
\* not, TX_HASH set or not, txhash.txt left by an earlier run or not, web3
\* and contract settings there or not, interactive or not
\* the scheduling state after a start and a claim of this process
RecordedState ==
    [last_start |-> iso(StartMs - 1000), last_claim |-> iso(StartMs - 2000),
     last_claim_amount |-> 1]

InitWallet ==
    /\ clock = StartMs
    /\ State \in {NoState, RecordedState}
    /\ http = NoCall
    /\ resp = NoResp
    /\ fn = NoFn
    /\ hist = NoHist
    /\ prog = "wallet"
    /\ pc = "w_begin"
    /\ m = NoMain
    /\ b = NoBot
    /\ busyLeft = MaxBusy
    /\ \E pk, addr, web3, noask \in BOOLEAN, txh \in {NoHash, EnvHash},
          file \in {NoHash, FileHash} :
          w = [NoWallet EXCEPT !.pk = pk, !.addr = addr, !.web3 = web3,
                               !.NON_INTERACTIVE = noask, !.TX_HASH = txh, !.file = file]
    /\ srv = [lct |-> [a \in 1..(MaxAccounts + 1) |-> NONE], date |-> FALSE,
              digits |-> 13, outage |-> TRUE, steady |-> FALSE]

NextWallet == Http \/ Wallet

SpecWallet == InitWallet /\ [][NextWallet]_vars

----------------------------------------------------------------------------
(* Properties of the retry client *)

AllBusy(ans) == \A i \in 1..Len(ans) : ans[i] \in {429, 503}

\* C5: a call of http_post or http_get whose attempts are all answered 429
\* or 503 sends exactly `retries` requests and returns None; an attempt
\* answered with any other status ends the call: that response is returned
\* and no further request is sent.
C5_RetryClient ==
    /\ pc = "returned" =>
          /\ AllBusy(http.answers) =>
                Len(http.answers) = http.retries /\ resp = NoResp
          /\ \A i \in 1..Len(http.answers) :
                http.answers[i] \notin {429, 503, -1} =>
                    i = Len(http.answers) /\ resp.status = http.answers[i]
    /\ (prog = "http" /\ pc = "http_try") =>
          \A i \in 1..Len(http.answers) : http.answers[i] \in {429, 503, -1}

\* C5 witness: three attempts, each answered 429 or 503, and None returned
C5_Witness ==
    /\ pc = "returned"
    /\ http.retries = 3
    /\ Len(http.answers) = 3
    /\ AllBusy(http.answers)
    /\ resp = NoResp

----------------------------------------------------------------------------
(* Properties of the wallet claim *)

\* C3 as stated: within one wallet_withdraw call, after a lookup whose
\* broadcast returned a hash, no later lookup broadcasts again and every
\* later lookup returns that hash.
C3_AsStated ==
    \A i, j \in 1..Len(w.lookups) :
        (i < j /\ w.lookups[i].bhash # NoHash) =>
            /\ w.lookups[j].bhash = NoHash
            /\ w.lookups[j].txh = w.lookups[i].bhash

\* C13: _obtain_tx_hash returns what the first of TX_HASH, the cached
\* txhash.txt, the broadcast and the prompt yields, in this order: the
\* broadcaster is called only when override and cache yield nothing, and
\* the operator is asked only when the broadcast gave no hash and
\* non-interactive mode is off.
C13_SourceOrder ==
    \A i \in 1..Len(w.lookups) :
        LET l == w.lookups[i]
        IN /\ l.override # NoHash => (l.txh = l.override /\ ~l.tried /\ ~l.asked)
           /\ (l.override = NoHash /\ l.cached # NoHash) =>
                 (l.txh = l.cached /\ ~l.tried /\ ~l.asked)
           /\ l.tried <=> (l.override = NoHash /\ l.cached = NoHash)
           /\ l.bhash # NoHash => (l.tried /\ l.txh = l.bhash /\ ~l.asked)
           /\ l.asked <=> (l.tried /\ l.bhash = NoHash /\ ~w.NON_INTERACTIVE)
           /\ l.txh = TypedHash => l.asked
           /\ (l.txh = NoHash /\ ~w.NON_INTERACTIVE) => l.asked

\* C13 witness: a lookup with override and cache both set, answered by the
\* override
C13_Witness ==
    \E i \in 1..Len(w.lookups) :
        /\ w.lookups[i].override # NoHash
        /\ w.lookups[i].cached # NoHash
        /\ w.lookups[i].txh = w.lookups[i].override

\* lookup l of the run started an on-chain broadcast
BroadcastStarted(l) == l.tried /\ w.web3

\* C14 as stated: within one wallet_withdraw call, after a broadcast that
\* returned no hash no later lookup starts a broadcast, the alternate
\* endpoint included.
C14_AsStated ==
    \A i, j \in 1..Len(w.lookups) :
        (i < j /\ BroadcastStarted(w.lookups[i]) /\ w.lookups[i].bhash = NoHash) =>
            ~BroadcastStarted(w.lookups[j])

\* C4: one run_wallet_auto_claim invocation makes at most
\* min(2, remainingWithdrawals) withdrawal attempts (signature request, then
\* wallet_withdraw), remainingWithdrawals being the quota the server
\* reported; with a reported quota of 0, and with none reported, it makes none.
C4_AttemptsBounded ==
    prog = "wallet" =>
        /\ w.reported =>
              /\ w.attempts <= Min(2, w.quota)
              /\ w.sigs <= Min(2, w.quota)
              /\ w.quota = 0 => (w.attempts = 0 /\ w.sigs = 0)
        /\ ~w.reported => (w.attempts = 0 /\ w.sigs = 0)
        /\ w.attempts <= w.sigs

\* C4 witness: a quota of 3 reported, and the invocation over after two
\* withdrawal attempts
C4_Witness ==
    /\ pc = "w_done"
    /\ w.reported
    /\ w.quota = 3
    /\ w.attempts = 2

----------------------------------------------------------------------------
(* Properties of the schedulers *)

\* a claim or start call is about to send a request
ClaimGoesOut == pc = "http_try" /\ MoreAttempts(http) /\ http.path = "/claim"
StartGoesOut == pc = "http_try" /\ MoreAttempts(http) /\ http.path = "/mining/start"

\* the claim call was made by the initial-attempt block of main.py
FromInitialAttempt == prog = "main" /\ fn.claimKont = "m_fr_claimed"

\* the caller of claim() has a deadline for the account and it has arrived
DeadlineArrived ==
    IF prog = "main"
    THEN /\ m.next_claim_at # NONE
         /\ m.srv_ms_loop >= m.next_claim_at
         /\ clock >= m.next_claim_at
    ELSE /\ b.next_claim_at # NONE
         /\ clock >= b.next_claim_at

\* C1: in a sweep of main.py, when the dashboard fetch yields a last-claim
\* instant t, the deadline of the account in that sweep is t + 86,400,000 ms
\* whatever last_start the state holds.
C1_DashboardDeadline ==
    (pc = "m_check" /\ m.lct_ms # NONE) => m.next_claim_at = m.lct_ms + 86400000

\* C1 witness: the dashboard gave an instant while the state holds a
\* last_start that would give another deadline
C1_Witness ==
    /\ pc = "m_check"
    /\ m.lct_ms # NONE
    /\ State.last_start # NoIso
    /\ parse_iso(State.last_start) + MiningMs # m.lct_ms + 86400000

\* C2 as stated: every claim request, those of main.py's first sweep
\* included, is sent only when now >= next_claim_at.
C2_AsStated == ClaimGoesOut => DeadlineArrived

\* C2: a claim request is sent only when now >= next_claim_at, in main.py
\* and in bot.py, except for the claim that main.py's initial-attempt block
\* sends for each account while first_run is set.
C2_ClaimOnlyWhenDue == (ClaimGoesOut /\ ~FromInitialAttempt) => DeadlineArrived

\* C2 witness: main.py sends a claim for an account found due
C2_Witness ==
    /\ ClaimGoesOut
    /\ prog = "main"
    /\ fn.claimKont = "m_due_claimed"
    /\ m.next_claim_at <= m.srv_ms_loop

\* the duration an 'already active' message states, in ms
Stated(msg) == msg[1] # NONE \/ msg[2] # NONE \/ msg[3] # NONE
StatedMs(msg) == (CountOf(msg[1]) * 3600 + CountOf(msg[2]) * 60 + CountOf(msg[3])) * 1000

\* start_mining has just returned to main()
StartReturned ==
    \/ pc \in {"m_fr_started", "m_res_started"}
    \/ pc = "m_due_sleep" /\ fn.claimRes

\* C6 as stated: in main.py, when a start is answered 400 'already active'
\* with a stated remaining duration d, start_mining reports success and the
\* recorded state gives the deadline now + d.
C6_AsStated ==
    (prog = "main" /\ StartReturned /\ hist.activeAt # NONE /\ Stated(hist.activeMsg)) =>
        /\ fn.startRes
        /\ parse_iso(State.last_start) + MiningMs = hist.activeAt + StatedMs(hist.activeMsg)

\* C7 as stated: after a 401 or 403 on a start or claim request, no start or
\* claim request is sent again with that credential.
C7_AsStated ==
    (ClaimGoesOut \/ StartGoesOut) => http.cookie \notin hist.authFailed

\* a request goes out in this step
RequestStep == pc = "http_try" /\ Len(http'.answers) = Len(http.answers) + 1

\* the start request of the account whose claim succeeded goes out in this step
PendingStartStep ==
    RequestStep /\ http.path = "/mining/start" /\ http.cookie = hist.pendingStart

\* C8 as stated: from a successful claim until the start request of the same
\* account goes out, no time passes in a sleep and no request goes out for
\* another account.
C8_AsStated ==
    [][ (hist.pendingStart # 0 /\ ~PendingStartStep) =>
          /\ clock' = clock
          /\ RequestStep => http.cookie = hist.pendingStart ]_vars

\* the sleep that follows a failed claim
FailCooldownMs == IF prog = "main" THEN 2000 ELSE FAST_INTERVAL_SECONDS * 1000

\* C9 as stated: the claim request that follows a failed due claim of an
\* account goes out a short fixed cooldown after the failure.
C9_AsStated == hist.retryDelay # NONE => hist.retryDelay = FailCooldownMs

\* a polling sweep is over and its sleep has been taken
PollSlept == pc = "m_sweep" /\ m.sweeps > 0 /\ ~LiveMode

DistinctDeadlines(targets) ==
    \A i, j \in 1..Len(targets) : i # j => targets[i].next # targets[j].next

\* the account whose deadline is the earliest of the targets
EarliestLabel(targets) ==
    (CHOOSE i \in 1..Len(targets) : targets[i].next = MinNext(targets))

\* C11 as stated: with several accounts that have distinct upcoming
\* deadlines, the sleep after the sweep is no longer than the time to the
\* earliest deadline (the 5 s floor apart), and in the sweep after it the
\* first claim request goes to the account with the earliest deadline.
C11_AsStated ==
    /\ (prog = "main" /\ pc = "m_sweep" /\ m.slept \in {"live", "poll"}
            /\ Len(m.targets) >= 2 /\ DistinctDeadlines(m.targets)) =>
          m.sleep_ms <= Max(5000, MinNext(m.targets) - m.srv_ms_loop)
    /\ (prog = "main" /\ m.sweeps >= 2 /\ Len(m.prev) >= 2
            /\ DistinctDeadlines(m.prev) /\ m.firstClaim # 0) =>
          m.firstClaim = m.prev[EarliestLabel(m.prev)].label

\* the accounts 1..k in order
UpTo(k) == [i \in 1..k |-> i]

SubmissionGoesOut ==
    /\ prog = "wallet"
    /\ pc = "http_try"
    /\ MoreAttempts(http)
    /\ http.path \in {candidates[1], candidates[2]}

\* an error response that is neither 404 nor a demand for a transaction hash
Rejected(a) == a.status >= 400 /\ a.status # 404 /\ ~a.need

\* C15 as stated: within one withdrawal attempt /wallet/claim receives the
\* authorization only when the last answer of /wallet/withdraw was 404, and
\* no submission goes out once an answer of the attempt was a business
\* rejection.
C15_AsStated ==
    SubmissionGoesOut =>
        /\ http.path = candidates[2] =>
              /\ w.answers # <<>>
              /\ w.answers[Len(w.answers)].cand = 1
              /\ w.answers[Len(w.answers)].status = 404
        /\ \A k \in 1..Len(w.answers) : ~Rejected(w.answers[k])


\* ---- run_wallet_auto_claim's loop ----

\* C16: once a withdrawal attempt returned failure or a get-signature
\* request failed, run_wallet_auto_claim has returned: no request is pending
\* or sent, and no further attempt was entered.
C16_StopsAfterFailure ==
    (prog = "wallet" /\ w.failed) =>
        /\ pc = "w_done"
        /\ http = NoCall

\* the first of two planned attempts failed with every candidate tried, and
\* the invocation is over with one attempt made
C16_Witness ==
    /\ prog = "wallet"
    /\ pc = "w_done"
    /\ w.failed
    /\ w.to_do = 2
    /\ w.attempts = 1
    /\ w.cand = Len(candidates)
    /\ Len(w.answers) >= 2


\* C17: a submission is sent only when the quota read at the start of the
\* invocation was positive and the most recent get-signature response
\* reported a positive claimable amount; otherwise the invocation just ends.
C17_NothingToClaim ==
    SubmissionGoesOut =>
        /\ w.reported
        /\ w.quota > 0
        /\ w.lastClaimable > 0

\* the quota was positive, the re-requested amount was zero: the invocation
\* ended with the attempt not entered
C17_Witness ==
    /\ prog = "wallet"
    /\ pc = "w_done"
    /\ w.reported
    /\ w.quota > 0
    /\ w.sigs >= 1
    /\ w.lastClaimable = 0
    /\ w.attempts = 0
    /\ ~w.failed


\* ---- the local record ----

\* C18 as stated: when the deadline of an account is taken from the local
\* last_start record, that record was written by a start of the same
\* account.
C18_AsStated ==
    (prog = "main" /\ pc = "m_check" /\ m.resolved = "local") =>
        hist.owner = m.idx


\* ---- the order of the evidence sources ----

\* the account under evaluation has its deadline from the dashboard or from
\* the local record
EvidenceAvailable ==
    /\ prog = "main"
    /\ m.idx \in 1..m.n
    /\ m.resolved \in {"dashboard", "local"}

\* the start request of the resolution step ("Sinkron: mencoba start")
SyncStartGoesOut ==
    /\ prog = "main"
    /\ StartGoesOut
    /\ fn.startKont = "m_res_started"

\* C19 as stated: no start request was sent in this sweep for an account
\* whose deadline came from the dashboard or from the local record.
C19_AsStated == EvidenceAvailable => m.idx \notin hist.starts

\* C19: the start request of the resolution step is sent only for an
\* account with no dashboard timestamp and no local record in this sweep,
\* and a deadline from the local record is used only without a dashboard
\* timestamp.
C19_ResolutionOrder ==
    /\ SyncStartGoesOut =>
          /\ http.cookie = m.idx
          /\ m.lct_ms = NONE
          /\ State.last_start = NoIso
          /\ m.resolved = ""
    /\ (prog = "main" /\ m.resolved = "local") =>
          m.lct_ms = NONE /\ State.last_start # NoIso
    /\ (prog = "main" /\ m.resolved = "dashboard") => m.lct_ms # NONE

\* the resolution step sends its start for the second account
C19_Witness ==
    /\ SyncStartGoesOut
    /\ m.idx = 2
    /\ m.lct_ms = NONE


\* ---- the clock of the continuous countdown ----

\* _multi_countdown_until has returned
CountdownOver == prog = "main" /\ pc = "m_sweep" /\ m.slept = "live"

\* C20 as stated: the extrapolated time of the countdown is the server time
\* captured at the start of the sweep plus the local time elapsed since that
\* capture.
C20_AsStated ==
    CountdownOver => m.now_ms = m.srv_ms_loop + (clock - m.cap)


\* ---- the end of the continuous countdown ----

\* C21 as stated: the countdown returns only when its extrapolated time has
\* reached the earliest target, and the sweep entered after it finds the
\* account of that target due.
C21_AsStated ==
    /\ CountdownOver => m.now_ms >= MinNext(m.targets)
    /\ (prog = "main" /\ LiveMode /\ pc = "m_check" /\ m.prev # <<>>
            /\ m.idx = m.prev[EarliestLabel(m.prev)].label
            /\ m.next_claim_at = MinNext(m.prev)) =>
          Due(m.next_claim_at - m.srv_ms_loop)


\* ---- the duration read from a message ----

\* the duration _parse_remaining_from_text returned for the last 'already
\* active' message
ParsedRemaining ==
    _parse_remaining_from_text(hist.activeMsg[1], hist.activeMsg[2], hist.activeMsg[3])

\* C22 as stated: for every 'already active' message received,
\* _parse_remaining_from_text returns the sum of the stated hours, minutes
\* and seconds (0 for an absent unit), and None exactly for a message
\* without any unit.
C22_AsStated ==
    (prog = "main" /\ hist.activeAt # NONE) =>
        ParsedRemaining = IF Stated(hist.activeMsg)
                          THEN StatedMs(hist.activeMsg)
                          ELSE NONE


\* C23: when the 'already active' rejection states no quantity, start_mining
\* reports success and the state it records gives the deadline now + 24 h.
C23_FullDurationFallback ==
    (prog = "main" /\ StartReturned /\ hist.activeAt # NONE
        /\ ~Stated(hist.activeMsg)) =>
        /\ fn.startRes
        /\ State.last_start # NoIso
        /\ parse_iso(State.last_start) + MiningMs = hist.activeAt + 24 * 3600 * 1000

\* the start of the resolution step was answered 'already active' without a
\* quantity
C23_Witness ==
    /\ prog = "main"
    /\ pc = "m_res_started"
    /\ hist.activeAt # NONE
    /\ hist.activeMsg = NoMsg
    /\ fn.startRes


\* ---- the stop signal ----

\* C24: once a stop signal has arrived during the sleep or countdown, the
\* stop message is logged and the process is over: it is at no point of the
\* loop and at no request (no step is taken from "stopped").
C24_StopEndsProcess ==
    hist.stopped =>
        /\ pc = "stopped"
        /\ hist.stopMsg

\* main.py was stopped during the live countdown of several accounts
C24_Witness ==
    /\ prog = "main"
    /\ pc = "stopped"
    /\ hist.stopped
    /\ LiveMode
    /\ m.n >= 2
    /\ m.targets # <<>>


\* ---- the backoff of the retry client ----

\* 1 + 2 + ... + k
SumTo(k) == (k * (k + 1)) \div 2

\* C25: in one call every request so far but possibly the last failed (429,
\* 503 or a network error); the call has slept backoff x k after its k-th
\* failure, backoff x (1 + ... + k) in all, and has sent at most `retries`
\* requests whatever the kinds of failure.
C25_BackoffPerAttempt ==
    prog = "http" =>
        LET sentSoFar == Len(http.answers)
            failed == Cardinality({ i \in 1..sentSoFar :
                                      http.answers[i] \in {429, 503, -1} })
        IN /\ sentSoFar <= http.retries
           /\ clock - StartMs = http.backoff * SumTo(failed) * 1000

\* a call of three attempts that met both kinds of failure and returned None
C25_Witness ==
    /\ prog = "http"
    /\ pc = "returned"
    /\ http.retries = 3
    /\ Len(http.answers) = 3
    /\ \E i, j \in 1..3 : http.answers[i] = -1 /\ http.answers[j] \in {429, 503}
    /\ resp = NoResp
    /\ clock - StartMs = http.backoff * 6000


\* ---- one retry policy ----

\* C26 as stated: every request of main.py is sent by a call with the same
\* maximum attempt count and the same backoff base.
C26_AsStated ==
    (prog \in {"main", "wallet"} /\ pc = "http_try") =>
        /\ http.retries = PostRetries
        /\ http.backoff = PostBackoff


\* ---- the wallet claim and the scheduling state ----

\* C27: no step of run_wallet_auto_claim or of what it calls changes
\* last_start, last_claim or last_claim_amount.
C27_StateUntouched == [][prog = "wallet" => State' = State]_vars

\* an invocation with a recorded state that had one withdrawal accepted and
\* then failed
C27_Witness ==
    /\ prog = "wallet"
    /\ pc = "w_done"
    /\ State = RecordedState
    /\ w.ok
    /\ w.failed
    /\ w.attempts >= 1


\* ---- suspension inside a sweep ----

\* C28 as stated: from the start of a sweep until its last account has been
\* evaluated no time is spent sleeping: the local clock still shows the
\* instant at which the sweep began.  Runs in which the retry client had to
\* back off are left aside, so that only the sleeps of main() count.
C28_AsStated ==
    (prog = "main" /\ m.sweeps >= 1 /\ pc \notin {"m_sweep", "stopped"}
        /\ busyLeft = MaxBusy) =>
        clock = m.cap


\* ---- the initial-attempt mode ----

\* a claim or start of the initial-attempt block is about to be sent
InitialAttemptGoesOut ==
    /\ prog = "main"
    /\ \/ ClaimGoesOut /\ fn.claimKont = "m_fr_claimed"
       \/ StartGoesOut /\ fn.startKont = "m_fr_started"

\* C29 as stated: the initial-attempt block sends its claim and start in the
\* first sweep only, and first_run is off from the second sweep on.
C29_AsStated ==
    /\ InitialAttemptGoesOut => m.sweeps = 1
    /\ (prog = "main" /\ m.sweeps >= 2) => ~m.first_run


\* ---- the choice between polling and live countdown ----

\* C30 as stated: with two or more accounts and no live countdown
\* requested the sweep ends in the polling sleep, never in the countdown;
\* with one account it ends in the countdown.
C30_AsStated ==
    (prog = "main" /\ pc \in {"m_sweep", "stopped"} /\ m.slept \in {"live", "poll"}) =>
        /\ (m.n >= 2 /\ ~m.requested) => m.slept = "poll"
        /\ m.n = 1 => m.slept = "live"


\* ---- bot.py and main.py on 'already active' ----

\* what main.py's start_mining takes as remaining time from a message
ExtractedRemaining(msg) ==
    LET rem == _parse_remaining_from_text(msg[1], msg[2], msg[3])
    IN IF rem = NONE THEN MiningMs ELSE rem

\* C31 as stated: after a 400 'already active' answer bot.py's start_mining
\* has recorded the last_start main.py's start_mining records for the same
\* answer: the deadline is now + the duration extracted from the message,
\* now + 24 h when it states none.
C31_AsStated ==
    (prog = "bot" /\ hist.activeAt # NONE) =>
        parse_iso(State.last_start) + MiningMs
            = hist.activeAt + ExtractedRemaining(hist.activeMsg)


\* ---- whose cookie a request carries ----

\* C32 as stated: every request sent while main.py processes account i
\* carries the cookie of account i.
C32_AsStated ==
    (prog = "main" /\ pc = "http_try" /\ MoreAttempts(http) /\ m.idx \in 1..m.n) =>
        http.cookie = m.idx


\* ---- a start that failed after a claim ----

\* bot.py: the claim was accepted and the start_mining after it returned
\* False
StartFailedAfterClaim == prog = "bot" /\ pc = "b_restarted" /\ ~fn.startRes

\* C33 as stated: after a start that failed following an accepted claim, a
\* start request is eventually sent again.
C33_AsStated == StartFailedAfterClaim ~> StartGoesOut


\* ---- the proof sent with an authorization ----

\* the authorization is about to be resubmitted with a transaction hash
HashGoesOut ==
    /\ prog = "wallet"
    /\ pc = "http_try"
    /\ MoreAttempts(http)
    /\ http.kont = "w_resubmit_r"

\* C34 as stated: the hash sent as proof was broadcast for the
\* authorization of this attempt (or given by the operator, as TX_HASH or
\* at the prompt); it is not a hash that txhash.txt held from an earlier
\* attempt or an earlier run.
C34_AsStated ==
    HashGoesOut =>
        \/ w.txh \in {EnvHash, TypedHash}
        \/ \E k \in 1..Len(w.lookups) : w.lookups[k].bhash = w.txh


\* ---- a stated count of zero ----

\* C35 as stated: _parse_remaining_from_text gives None only for a message
\* without any count and unit, and after a message stating a zero duration
\* the recorded state gives the deadline now.
C35_AsStated ==
    (prog = "main" /\ hist.activeAt # NONE) =>
        /\ ParsedRemaining = NONE => ~Stated(hist.activeMsg)
        /\ (StartReturned /\ Stated(hist.activeMsg) /\ StatedMs(hist.activeMsg) = 0) =>
              parse_iso(State.last_start) + MiningMs = hist.activeAt


\* ---- a countdown without a tick ----

\* C36 as stated: the countdown between two sweeps sleeps at least one
\* one-second tick.
C36_AsStated ==
    CountdownOver =>
        /\ m.ticks >= 1
        /\ clock - m.t0 >= 1000

====
